---- MODULE Spec2Model ----
(***************************************************************************)
(* State-machine model of the RustyCubes simulation core (src/main.rs):    *)
(* the playfield grid, the falling piece, lateral movement (can_move and   *)
(* key_down_event), the poll handler State::update with its gravity tick   *)
(* (Piece::update) and visual refresh (Piece::update_fast).                *)
(*                                                                         *)
(* Coordinates follow the source: x is the column (0..GRID_ROWS-1, the     *)
(* source names the 10 columns GRID_ROWS) and y is the row                 *)
(* (0..GRID_COLS-1); grid.cells is indexed cells[x][y].                    *)
(***************************************************************************)
EXTENDS Integers, Sequences, FiniteSets

VARIABLES
    piece,      \* State.piece (always Some in the source): the falling Piece
    grid,       \* State.grid: the Grid with its cells
    elapsed,    \* Instant::now() - State.last_update at the last poll, in ms
    waited,     \* history: the time since last_update that the last poll measured
    panicked,   \* TRUE once an index out of bounds has aborted the process
    moves,      \* history: number of key commands handled so far
    ticks,      \* history: gravity ticks applied to the current piece
    locks,      \* history: one record per piece merged into the grid
    last        \* history: the last operation performed and its outcome

vars == <<piece, grid, elapsed, waited, panicked, moves, ticks, locks, last>>

----------------------------------------------------------------------------
(* Program constants *)

UPDATES_PER_SECOND == 6

\* (1.0 / UPDATES_PER_SECOND * 1000.0) as u64
MILLIS_PER_UPDATE == 1000 \div UPDATES_PER_SECOND

GRID_ROWS == 10

GRID_COLS == 20

\* Piece::new_random spawns at (SPAWN_X, SPAWN_Y)
SPAWN_X == 4

SPAWN_Y == 0

\* side of the square block matrix of a piece
PIECE_DIM == 4

PieceKind == {"I", "J", "L", "O", "S", "T", "Z"}

LEFT == "LEFT"

RIGHT == "RIGHT"

Direction == {LEFT, RIGHT}

----------------------------------------------------------------------------
(* Bounds of the model *)

\* A run is followed while its effort, the key commands handled plus
\* LockCost for every piece locked, stays within MaxEffort: runs with many
\* commands are followed for one piece, runs with several pieces for few.
MaxEffort == 6

LockCost == 3

\* a poll arrives within the same millisecond as the previous one, DtStep
\* milliseconds after it, or a whole gravity interval after it
DtStep == 83

----------------------------------------------------------------------------
(* GridPosition and Block *)

GridPosition(x, y) == [x |-> x, y |-> y]

Idx == 0 .. (PIECE_DIM - 1)

Block_new(x, y, kind) ==
    [kind |-> kind, position |-> GridPosition(x, y), offset |-> GridPosition(0, 0),
     active |-> FALSE, render |-> FALSE]

Block_empty(kind) == Block_new(0, 0, kind)

Block_update(b, parent_position) ==
    IF ~b.active THEN b
    ELSE [b EXCEPT !.position = GridPosition(parent_position.x + b.offset.x,
                                             parent_position.y + b.offset.y)]

do_render(b) == [b EXCEPT !.render = TRUE]

set_inactive(b) == [b EXCEPT !.active = FALSE]

active_and_render(b) == [b EXCEPT !.render = TRUE, !.active = TRUE]

set_offset(b, x, y) == [b EXCEPT !.offset = GridPosition(b.position.x + x, b.position.y + y)]

----------------------------------------------------------------------------
(* Piece *)

\* ShapeCells with the two indices of every entry exchanged
ShapeCells_Transposed(kind) ==
    CASE kind = "I" -> {<<0, 0>>, <<0, 1>>, <<0, 2>>, <<0, 3>>}
      [] kind = "J" -> {<<0, 0>>, <<1, 0>>, <<1, 1>>, <<1, 2>>}
      [] kind = "L" -> {<<0, 2>>, <<1, 0>>, <<1, 1>>, <<1, 2>>}
      [] kind = "O" -> {<<0, 0>>, <<1, 0>>, <<0, 1>>, <<1, 1>>}
      [] kind = "S" -> {<<0, 1>>, <<0, 2>>, <<1, 0>>, <<1, 1>>}
      [] kind = "T" -> {<<0, 1>>, <<1, 0>>, <<1, 1>>, <<1, 2>>}
      [] kind = "Z" -> {<<0, 0>>, <<0, 1>>, <<1, 1>>, <<1, 2>>}

\* the matrix indices <<r, c>> that Piece::new activates for each kind
ShapeCells(kind) ==
    CASE kind = "I" -> {<<0, 0>>, <<1, 0>>, <<2, 0>>, <<3, 0>>}
      [] kind = "J" -> {<<0, 0>>, <<0, 1>>, <<1, 1>>, <<2, 1>>}
      [] kind = "L" -> {<<2, 0>>, <<0, 1>>, <<1, 1>>, <<2, 1>>}
      [] kind = "O" -> {<<0, 0>>, <<0, 1>>, <<1, 0>>, <<1, 1>>}
      [] kind = "S" -> {<<1, 0>>, <<2, 0>>, <<0, 1>>, <<1, 1>>}
      [] kind = "T" -> {<<1, 0>>, <<0, 1>>, <<1, 1>>, <<2, 1>>}
      [] kind = "Z" -> {<<0, 0>>, <<1, 0>>, <<1, 1>>, <<2, 1>>}

Piece_new(x, y, kind) ==
    [position |-> GridPosition(x, y),
     kind     |-> kind,
     active   |-> TRUE,
     blocks   |-> [r \in Idx |-> [c \in Idx |->
                     set_offset(IF <<r, c>> \in ShapeCells(kind)
                                THEN active_and_render(Block_empty(kind))
                                ELSE Block_empty(kind), r, c)]]]

new_random(kind) == Piece_new(SPAWN_X, SPAWN_Y, kind)

\* update_fast with the last row tested one row early (y + 2 == GRID_COLS)
update_fast_RowEarly(p) ==
    [p EXCEPT !.blocks = [r \in Idx |-> [c \in Idx |->
                            Block_update(p.blocks[r][c], p.position)]],
              !.active = p.active /\ ~(\E r \in Idx, c \in Idx :
                            Block_update(p.blocks[r][c], p.position).position.y + 2
                                = GRID_COLS)]

\* Piece::update_fast: every block is refreshed; the piece is deactivated
\* when some block (active or not) then sits in the last row
update_fast(p) ==
    [p EXCEPT !.blocks = [r \in Idx |-> [c \in Idx |->
                            Block_update(p.blocks[r][c], p.position)]],
              !.active = p.active /\ ~(\E r \in Idx, c \in Idx :
                            Block_update(p.blocks[r][c], p.position).position.y + 1
                                = GRID_COLS)]

\* move_left by two columns
move_left_Twice(p) == [p EXCEPT !.position.x = @ - 2]

move_left(p) == [p EXCEPT !.position.x = @ - 1]

move_right(p) == [p EXCEPT !.position.x = @ + 1]

----------------------------------------------------------------------------
(* GridCell and Grid *)

\* Option<Block>: <<>> is None, <<b>> is Some(b)
None == <<>>

Some(b) == <<b>>

\* GridCell: occupied and block.  The fields position and rect, which
\* Grid::new sets once to the cell's own indices and only draw reads, are
\* carried by the index of the cell in grid.cells.
GridCell_new == [occupied |-> FALSE, block |-> None]

\* set_block that stores the block and leaves the occupied flag alone
set_block_NoFlag(cell, block) ==
    [cell EXCEPT !.block = Some(do_render(set_inactive(
                               Block_new(block.position.x, block.position.y, block.kind))))]

set_block(cell, block) ==
    [cell EXCEPT !.occupied = TRUE,
                 !.block = Some(do_render(set_inactive(
                               Block_new(block.position.x, block.position.y, block.kind))))]

Cols == 0 .. (GRID_ROWS - 1)

Rows == 0 .. (GRID_COLS - 1)

Grid_new == [cells |-> [r \in Cols |-> [c \in Rows |-> GridCell_new]]]

----------------------------------------------------------------------------
(* Piece::update: the gravity step with lock and merge *)

\* the clamp applied to a block position before it indexes the grid
ClampX(x) == IF x >= GRID_ROWS THEN GRID_ROWS - 1 ELSE x

ClampY(y) == IF y >= GRID_COLS THEN GRID_COLS - 1 ELSE y

\* the write loop of the "Piece is now dead" branch, blocks[i \div 4][i % 4]
\* in the order of the two nested loops; a later write replaces an earlier one
RECURSIVE MergeBlocks(_, _, _)
MergeBlocks(blocks, cells, i) ==
    IF i = PIECE_DIM * PIECE_DIM THEN cells
    ELSE LET b == blocks[i \div PIECE_DIM][i % PIECE_DIM]
         IN IF ~b.render THEN MergeBlocks(blocks, cells, i + 1)
            ELSE MergeBlocks(blocks,
                             [cells EXCEPT ![ClampX(b.position.x)][ClampY(b.position.y)]
                                               = set_block(@, b)],
                             i + 1)

\* the cell indices the write loop uses
MergeTargets(blocks) ==
    {<<ClampX(blocks[r][c].position.x), ClampY(blocks[r][c].position.y)>> :
        <<r, c>> \in {rc \in Idx \X Idx : blocks[rc[1]][rc[2]].render}}

\* AtBottom with the last row tested one row early (y + 2 == GRID_COLS)
AtBottom_RowEarly(bs) ==
    \E r \in Idx, c \in Idx : bs[r][c].active /\ bs[r][c].position.y + 2 = GRID_COLS

\* AtBottom with the last row tested one row late (y == GRID_COLS)
AtBottom_RowLate(bs) ==
    \E r \in Idx, c \in Idx : bs[r][c].active /\ bs[r][c].position.y = GRID_COLS

\* line 314: some active block sits in the last row
AtBottom(bs) ==
    \E r \in Idx, c \in Idx : bs[r][c].active /\ bs[r][c].position.y + 1 = GRID_COLS

\* the active blocks whose cell below is looked up in the grid (line 318)
Lookups(bs) ==
    {rc \in Idx \X Idx : /\ bs[rc[1]][rc[2]].active
                         /\ bs[rc[1]][rc[2]].position.x < GRID_ROWS
                         /\ bs[rc[1]][rc[2]].position.y < GRID_COLS - 1}

\* BlockedBelow with the occupancy lookup left out
BlockedBelow_Never(bs, g) == FALSE

\* line 318: the grid cell below some active block is occupied
BlockedBelow(bs, g) ==
    \E rc \in Lookups(bs) :
        g.cells[bs[rc[1]][rc[2]].position.x][bs[rc[1]][rc[2]].position.y + 1].occupied

\* the element of a one-element set; used to evaluate a value once and
\* name it
The(S) == CHOOSE v \in S : TRUE

\* FallenAnchor without the step down
FallenAnchor_Stay(p) == p.position

\* lines 307-313: the anchor one row down, and the block matrix with every
\* active block refreshed from it
FallenAnchor(p) == [p.position EXCEPT !.y = @ + 1]

FallenBlocks(p) ==
    [r \in Idx |-> [c \in Idx |-> Block_update(p.blocks[r][c], FallenAnchor(p))]]

\* Piece_land with the merge written onto a board of empty cells
Piece_land_ClearsBoard(p, g, bs) ==
    IF \E rc \in Lookups(bs) : \/ bs[rc[1]][rc[2]].position.x \notin Cols
                                \/ (bs[rc[1]][rc[2]].position.y + 1) \notin Rows
    THEN [piece |-> p, grid |-> g, panic |-> TRUE, written |-> {}]
    ELSE IF ~(AtBottom(bs) \/ BlockedBelow(bs, g))
    THEN [piece |-> [p EXCEPT !.position = FallenAnchor(p), !.blocks = bs],
          grid |-> g, panic |-> FALSE, written |-> {}]
    ELSE IF \E t \in MergeTargets(bs) : t[1] \notin Cols \/ t[2] \notin Rows
    THEN [piece |-> p, grid |-> g, panic |-> TRUE, written |-> {}]
    ELSE [piece |-> [p EXCEPT !.position = FallenAnchor(p), !.blocks = bs,
                              !.active = FALSE],
          grid  |-> [g EXCEPT !.cells = MergeBlocks(bs, Grid_new.cells, 0)],
          panic |-> FALSE, written |-> MergeTargets(bs)]

\* lines 314-340 for the refreshed block matrix bs: the piece locks and is
\* merged when a block sits in the last row or above an occupied cell.  The
\* result is the piece and grid after the call, whether an index went out of
\* range (the process aborts), and the cells written.
Piece_land(p, g, bs) ==
    IF \E rc \in Lookups(bs) : \/ bs[rc[1]][rc[2]].position.x \notin Cols
                                \/ (bs[rc[1]][rc[2]].position.y + 1) \notin Rows
    THEN [piece |-> p, grid |-> g, panic |-> TRUE, written |-> {}]
    ELSE IF ~(AtBottom(bs) \/ BlockedBelow(bs, g))
    THEN [piece |-> [p EXCEPT !.position = FallenAnchor(p), !.blocks = bs],
          grid |-> g, panic |-> FALSE, written |-> {}]
    ELSE IF \E t \in MergeTargets(bs) : t[1] \notin Cols \/ t[2] \notin Rows
    THEN [piece |-> p, grid |-> g, panic |-> TRUE, written |-> {}]
    ELSE [piece |-> [p EXCEPT !.position = FallenAnchor(p), !.blocks = bs,
                              !.active = FALSE],
          grid  |-> [g EXCEPT !.cells = MergeBlocks(bs, g.cells, 0)],
          panic |-> FALSE, written |-> MergeTargets(bs)]

\* the body of Piece::update for an active piece
Piece_fall(p, g) == The({Piece_land(p, g, bs) : bs \in {FallenBlocks(p)}})

\* Piece::update without the early return for a piece that is not active
Piece_update_NoGuard(p, g) == Piece_fall(p, g)

\* Piece::update(&mut self, grid): nothing happens to a piece that is not active
Piece_update(p, g) ==
    IF ~p.active THEN [piece |-> p, grid |-> g, panic |-> FALSE, written |-> {}]
    ELSE Piece_fall(p, g)

----------------------------------------------------------------------------
(* can_move *)

\* the scan of the two nested loops of can_move from block i on:
\* "true", "false", or "panic" when a grid index is out of range
RECURSIVE ScanBlocks(_, _, _, _)
ScanBlocks(p, g, direction, i) ==
    IF i = PIECE_DIM * PIECE_DIM THEN "true"
    ELSE LET b == p.blocks[i \div PIECE_DIM][i % PIECE_DIM]
             pos == b.position
         IN IF ~b.active THEN ScanBlocks(p, g, direction, i + 1)
            ELSE IF direction = LEFT
            THEN IF pos.x = 0 THEN "false"
                 ELSE IF (pos.x - 1) \notin Cols \/ pos.y \notin Rows THEN "panic"
                 ELSE IF g.cells[pos.x - 1][pos.y].occupied THEN "false"
                 ELSE ScanBlocks(p, g, direction, i + 1)
            ELSE IF pos.x + 1 = GRID_ROWS THEN "false"
                 ELSE IF (pos.x + 1) \notin Cols \/ pos.y \notin Rows THEN "panic"
                 ELSE IF g.cells[pos.x + 1][pos.y].occupied THEN "false"
                 ELSE ScanBlocks(p, g, direction, i + 1)

\* can_move without the two tests of the anchor column
can_move_NoAnchorTest(p, g, direction) == ScanBlocks(p, g, direction, 0)

can_move(p, g, direction) ==
    IF direction = RIGHT /\ p.position.x >= GRID_ROWS - 1 THEN "false"
    ELSE IF direction = LEFT /\ p.position.x <= 0 THEN "false"
    ELSE ScanBlocks(p, g, direction, 0)

----------------------------------------------------------------------------
(* The game state and its handlers *)

\* the time between two polls
PollGaps == {0, DtStep, MILLIS_PER_UPDATE}

Init ==
    /\ \E kind \in PieceKind : piece = new_random(kind)
    /\ grid = Grid_new
    /\ elapsed = 0
    /\ waited = 0
    /\ panicked = FALSE
    /\ moves = 0
    /\ ticks = 0
    /\ locks = <<>>
    /\ last = [op |-> "spawn", res |-> "none"]

\* Due with the comparison dropped: a gravity tick on every poll
Due_Always(t) == TRUE

\* line 508: Instant::now() - self.last_update >= Duration::from_millis(MILLIS_PER_UPDATE)
Due(t) == t >= MILLIS_PER_UPDATE

Effort == moves + LockCost * Len(locks)

Running == ~panicked /\ Effort <= MaxEffort

\* State::update when the gravity interval has elapsed: Piece::update, a new
\* random piece when the piece is no longer active, last_update = now
GravityTick ==
    /\ Running
    /\ \E dt \in PollGaps :
          /\ Due(elapsed + dt)
          /\ waited' = elapsed + dt
    /\ \E u \in {Piece_update(piece, grid)} :
          IF u.panic
          THEN /\ panicked' = TRUE
               /\ last' = [op |-> "tick", res |-> "panic"]
               /\ UNCHANGED <<piece, grid, elapsed, ticks, locks>>
          ELSE /\ grid' = u.grid
               /\ elapsed' = 0
               /\ panicked' = FALSE
               /\ IF u.piece.active
                  THEN /\ piece' = u.piece
                       /\ ticks' = ticks + 1
                       /\ locks' = locks
                       /\ last' = [op |-> "tick", res |-> "fell"]
                  ELSE /\ \E kind \in PieceKind : piece' = new_random(kind)
                       /\ ticks' = 0
                       /\ locks' = Append(locks,
                                     [kind |-> piece.kind, ticks |-> ticks + 1,
                                      merged |-> piece.active, cells |-> u.written,
                                      anchor |-> u.piece.position,
                                      next |-> piece'.position])
                       /\ last' = [op |-> "spawn", res |-> "none"]
    /\ UNCHANGED moves

\* State::update when the gravity interval has not elapsed: Piece::update_fast
Refresh ==
    /\ Running
    /\ \E dt \in PollGaps :
          /\ ~Due(elapsed + dt)
          /\ elapsed' = elapsed + dt
          /\ waited' = elapsed + dt
    /\ piece' = update_fast(piece)
    /\ last' = [op |-> "refresh", res |-> "none"]
    /\ UNCHANGED <<grid, panicked, moves, ticks, locks>>

\* the piece after key_down_event has consulted can_move with result res
Moved(p, direction, res) ==
    IF res # "true" THEN p
    ELSE IF direction = LEFT THEN move_left(p) ELSE move_right(p)

\* State::key_down_event for KeyCode::Left
KeyLeft ==
    /\ Running
    /\ Effort < MaxEffort
    /\ moves' = moves + 1
    /\ \E res \in {can_move(piece, grid, LEFT)} :
          /\ piece' = Moved(piece, LEFT, res)
          /\ panicked' = (res = "panic")
          /\ last' = [op |-> LEFT, res |-> res]
    /\ UNCHANGED <<grid, elapsed, waited, ticks, locks>>

\* State::key_down_event for KeyCode::Right
KeyRight ==
    /\ Running
    /\ Effort < MaxEffort
    /\ moves' = moves + 1
    /\ \E res \in {can_move(piece, grid, RIGHT)} :
          /\ piece' = Moved(piece, RIGHT, res)
          /\ panicked' = (res = "panic")
          /\ last' = [op |-> RIGHT, res |-> res]
    /\ UNCHANGED <<grid, elapsed, waited, ticks, locks>>

Next == GravityTick \/ Refresh \/ KeyLeft \/ KeyRight

Spec == Init /\ [][Next]_vars

\* the same game when polls keep arriving and time keeps advancing, so that
\* a poll on which the gravity interval has elapsed always comes
SpecLive == Spec /\ WF_vars(GravityTick)

\* the same game when no key is ever pressed
NextDrop == GravityTick \/ Refresh

SpecDrop == Init /\ [][NextDrop]_vars

----------------------------------------------------------------------------
(* Vocabulary of the properties *)

\* the matrix indices of the active blocks of a piece
ActiveIdx(p) == {rc \in Idx \X Idx : p.blocks[rc[1]][rc[2]].active}

\* the cell a block of the piece covers, from the anchor and the block's offset
TrueCell(p, rc) ==
    <<p.position.x + p.blocks[rc[1]][rc[2]].offset.x,
      p.position.y + p.blocks[rc[1]][rc[2]].offset.y>>

\* the cell a block's stored absolute position names
StoredCell(p, rc) ==
    <<p.blocks[rc[1]][rc[2]].position.x, p.blocks[rc[1]][rc[2]].position.y>>

\* every active block's stored position is anchor + offset
PositionsCurrent(p) == \A rc \in ActiveIdx(p) : StoredCell(p, rc) = TrueCell(p, rc)

InBoard(cell) == cell[1] \in Cols /\ cell[2] \in Rows

OccupiedAt(g, cell) == InBoard(cell) /\ g.cells[cell[1]][cell[2]].occupied

OccupiedCells(g) == {cell \in Cols \X Rows : g.cells[cell[1]][cell[2]].occupied}

\* the kind of the first piece of the run
FirstKind == IF locks = <<>> THEN piece.kind ELSE locks[1].kind

RECURSIVE SumTicks(_)
SumTicks(ls) == IF ls = <<>> THEN 0 ELSE Head(ls).ticks + SumTicks(Tail(ls))

\* gravity ticks since the start of the run
TotalTicks == SumTicks(locks) + ticks

\* the frozen block set_block stores for a block of the given kind at a cell
Frozen(kind, cell) ==
    [kind |-> kind, position |-> GridPosition(cell[1], cell[2]),
     offset |-> GridPosition(0, 0), active |-> FALSE, render |-> TRUE]

----------------------------------------------------------------------------
(* C1: on a board that starts empty and with no lateral moves, the second   *)
(* piece dropped never covers a cell the first piece occupies: while it     *)
(* falls none of its blocks is on an occupied cell, it locks in four cells  *)
(* disjoint from the first piece's four, and one of its blocks is in the    *)
(* row immediately above an occupied cell of the same column.               *)
C1_SecondStopsAtopFirst ==
    /\ (moves = 0 /\ Len(locks) = 1) =>
          \A rc \in ActiveIdx(piece) :
              /\ ~OccupiedAt(grid, TrueCell(piece, rc))
              /\ ~OccupiedAt(grid, StoredCell(piece, rc))
    /\ (moves = 0 /\ Len(locks) >= 2) =>
          /\ Cardinality(locks[1].cells) = 4
          /\ Cardinality(locks[2].cells) = 4
          /\ locks[1].cells \cap locks[2].cells = {}
          /\ \E cell \in locks[2].cells : <<cell[1], cell[2] + 1>> \in locks[1].cells
          /\ locks[1].cells \cup locks[2].cells \subseteq OccupiedCells(grid)

\* both pieces have locked without a key command, the second on top of the first
C1_Witness ==
    /\ moves = 0
    /\ Len(locks) >= 2
    /\ locks[1].kind = "S"
    /\ locks[2].kind = "Z"
    /\ locks[2].anchor.y < locks[1].anchor.y

(* C2: an O piece spawned at (4,0) on the empty board, 20 gravity ticks, no *)
(* lateral moves: exactly the cells of columns 4-5, rows 18-19 are          *)
(* occupied, by blocks of that piece, and the replacement piece was created *)
(* at anchor (4,0).                                                         *)
C2_ScenarioA ==
    (FirstKind = "O" /\ moves = 0 /\ TotalTicks = 20) =>
        /\ Len(locks) = 1
        /\ OccupiedCells(grid) = {4, 5} \X {18, 19}
        /\ \A cell \in {4, 5} \X {18, 19} :
               grid.cells[cell[1]][cell[2]].block = Some(Frozen("O", cell))
        /\ locks[1].next = GridPosition(4, 0)

\* the 20th gravity tick of a run that started with an O piece has happened
C2_Witness ==
    /\ FirstKind = "O"
    /\ moves = 0
    /\ TotalTicks = 20
    /\ Len(locks) = 1
    /\ OccupiedCells(grid) # {}

(* C5 as stated: an I piece spawned at row 0 over the empty board, with no  *)
(* lateral moves, locks on its 20th gravity tick.                           *)
C5_LocksOn20th ==
    (moves = 0 /\ Len(locks) >= 1 /\ locks[1].kind = "I") => locks[1].ticks = 20

(* C5 amended: the I piece descends one row on each of its gravity ticks,   *)
(* is still falling after each of the first 18, and locks on the 19th, the  *)
(* tick that brings it to row 19; it never sees a 20th tick.                *)
C5_LocksOn19th ==
    /\ (moves = 0 /\ locks = <<>> /\ piece.kind = "I") =>
          /\ piece.active
          /\ piece.position.y = ticks
          /\ ticks <= 18
    /\ (moves = 0 /\ Len(locks) >= 1 /\ locks[1].kind = "I") =>
          /\ locks[1].ticks = 19
          /\ locks[1].anchor = GridPosition(4, 19)
          /\ locks[1].cells = {4, 5, 6, 7} \X {19}

\* the first piece, of kind I, has locked without a key command
C5_Witness ==
    /\ moves = 0
    /\ Len(locks) >= 1
    /\ locks[1].kind = "I"
    /\ locks[1].merged
    /\ OccupiedAt(grid, <<4, 19>>)

(* C3 as stated: can_move(piece, board, RIGHT) is false exactly when some   *)
(* active block has column+1 equal to the board width or has the cell one   *)
(* column to its right, in its row, occupied, and true in every other case. *)
C3_RightFalseIffBlocked ==
    ~panicked =>
        /\ can_move(piece, grid, RIGHT) \in {"true", "false"}
        /\ (can_move(piece, grid, RIGHT) = "false") <=>
              \E rc \in ActiveIdx(piece) :
                  \/ StoredCell(piece, rc)[1] + 1 = GRID_ROWS
                  \/ OccupiedAt(grid, <<StoredCell(piece, rc)[1] + 1,
                                        StoredCell(piece, rc)[2]>>)

(* C4: the anchor column is never below 0, and a MoveLeft command that      *)
(* arrives while the anchor or an active block is at column 0 finds         *)
(* can_move(LEFT) false and leaves the piece as it was.                     *)
C4_LeftStopsAtColumn0 ==
    /\ [](piece.position.x >= 0)
    /\ [][((\/ piece.position.x = 0
             \/ \E rc \in ActiveIdx(piece) : StoredCell(piece, rc)[1] = 0) /\ KeyLeft)
             => (can_move(piece, grid, LEFT) = "false" /\ piece' = piece)]_vars

\* the piece was walked from column 4 to column 0 and a further MoveLeft was refused
C4_Witness ==
    /\ piece.position.x = 0
    /\ PositionsCurrent(piece)
    /\ last = [op |-> LEFT, res |-> "false"]
    /\ moves >= 5

\* a locked piece as Piece::update leaves it has a rendered block in the last
\* row or on a cell of the board whose lower neighbour is occupied
RestsOn(p, g) ==
    \E rc \in ActiveIdx(p) :
        \/ StoredCell(p, rc)[2] = GRID_COLS - 1
        \/ /\ InBoard(StoredCell(p, rc))
           /\ OccupiedAt(g, <<StoredCell(p, rc)[1], StoredCell(p, rc)[2] + 1>>)

(* C6: a piece is merged into the board exactly once, on the first gravity  *)
(* tick that leaves it with nowhere to fall (a block in the last row or on  *)
(* top of an occupied cell): a tick that leaves it free to fall writes      *)
(* nothing, every piece that was replaced had been merged on that tick, and *)
(* a further gravity update of the locked piece changes neither the piece  *)
(* nor the board.                                                          *)
C6_MergedExactlyOnce ==
    /\ [](\A i \in DOMAIN locks : locks[i].merged /\ locks[i].cells # {})
    /\ [][(last'.op \in {"tick", "spawn"} /\ GravityTick) =>
            \A u \in {Piece_update(piece, grid)} :
               \/ u.panic
               \/ /\ u.piece.active
                  /\ ~RestsOn(u.piece, grid)
                  /\ grid' = grid
                  /\ locks' = locks
                  /\ piece' = u.piece
               \/ /\ ~u.piece.active
                  /\ RestsOn(u.piece, grid)
                  /\ Len(locks') = Len(locks) + 1
                  /\ OccupiedCells(grid') = OccupiedCells(grid) \cup locks'[Len(locks')].cells
                  /\ Piece_update(u.piece, grid') =
                        [piece |-> u.piece, grid |-> grid', panic |-> FALSE, written |-> {}]]_vars

\* a piece that was moved sideways has locked and been merged
C6_Witness ==
    /\ Len(locks) = 1
    /\ locks[1].merged
    /\ moves >= 1
    /\ locks[1].cells \subseteq OccupiedCells(grid)
    /\ Cardinality(OccupiedCells(grid)) = 4

(* C7 as stated: whenever can_move is evaluated for a move command, every   *)
(* active block's absolute position equals the piece anchor plus the        *)
(* block's offset.                                                          *)
C7_CurrentAtEveryQuery ==
    [][(KeyLeft \/ KeyRight) => PositionsCurrent(piece)]_vars

(* C8 as stated: every active block of the falling piece whose position has *)
(* been recomputed, and every block stored in a board cell, has its column  *)
(* in 0..9 and its row in 0..19.                                            *)
C8_AllInsideBoard ==
    /\ \A rc \in ActiveIdx(piece) :
          StoredCell(piece, rc) = TrueCell(piece, rc) => InBoard(StoredCell(piece, rc))
    /\ \A cell \in Cols \X Rows :
          \A i \in DOMAIN grid.cells[cell[1]][cell[2]].block :
              InBoard(<<grid.cells[cell[1]][cell[2]].block[i].position.x,
                        grid.cells[cell[1]][cell[2]].block[i].position.y>>)

(* C9 as stated: no sequence of polls and move commands makes can_move or   *)
(* the gravity step index the board outside columns 0..9 / rows 0..19; the  *)
(* simulation never aborts.                                                 *)
C9_NeverAborts == ~panicked

\* the shape catalog of the specification: local offsets <<x, y>> per kind
Catalog(kind) ==
    CASE kind = "I" -> {<<0, 0>>, <<1, 0>>, <<2, 0>>, <<3, 0>>}
      [] kind = "J" -> {<<0, 0>>, <<0, 1>>, <<1, 1>>, <<2, 1>>}
      [] kind = "L" -> {<<2, 0>>, <<0, 1>>, <<1, 1>>, <<2, 1>>}
      [] kind = "O" -> {<<0, 0>>, <<0, 1>>, <<1, 0>>, <<1, 1>>}
      [] kind = "S" -> {<<1, 0>>, <<2, 0>>, <<0, 1>>, <<1, 1>>}
      [] kind = "T" -> {<<1, 0>>, <<0, 1>>, <<1, 1>>, <<2, 1>>}
      [] kind = "Z" -> {<<0, 0>>, <<1, 0>>, <<1, 1>>, <<2, 1>>}

(* C10: a piece as spawned, of any kind, is active, at anchor (4,0), and of *)
(* the 16 blocks of its 4x4 matrix exactly 4 are active and rendered, those *)
(* at the local offsets the catalog lists for the kind; the 12 others are   *)
(* neither active nor rendered.                                             *)
C10_SpawnMatchesCatalog ==
    last.op = "spawn" =>
        /\ piece.position = GridPosition(4, 0)
        /\ piece.active
        /\ piece.kind \in PieceKind
        /\ DOMAIN piece.blocks = 0 .. 3
        /\ \A r \in 0 .. 3 : DOMAIN piece.blocks[r] = 0 .. 3
        /\ Cardinality(ActiveIdx(piece)) = 4
        /\ {<<piece.blocks[rc[1]][rc[2]].offset.x, piece.blocks[rc[1]][rc[2]].offset.y>> :
               rc \in ActiveIdx(piece)} = Catalog(piece.kind)
        /\ \A rc \in (0 .. 3) \X (0 .. 3) :
              /\ piece.blocks[rc[1]][rc[2]].render = piece.blocks[rc[1]][rc[2]].active
              /\ piece.blocks[rc[1]][rc[2]].kind = piece.kind

\* a replacement piece of an asymmetric kind has just been spawned
C10_Witness ==
    /\ last.op = "spawn"
    /\ Len(locks) >= 1
    /\ piece.kind = "L"
    /\ piece.blocks[2][0].active

(* C11: in every reachable state every board cell has occupied = TRUE       *)
(* exactly when a block is stored in it.                                    *)
C11_OccupiedIffBlockStored ==
    \A cell \in Cols \X Rows :
        /\ grid.cells[cell[1]][cell[2]].occupied
              <=> (grid.cells[cell[1]][cell[2]].block # None)
        /\ Len(grid.cells[cell[1]][cell[2]].block) <= 1

\* a piece that was moved sideways has been stored in cells flagged occupied
C11_Witness ==
    /\ Len(locks) >= 1
    /\ moves >= 1
    /\ \E cell \in locks[1].cells :
          /\ grid.cells[cell[1]][cell[2]].occupied
          /\ grid.cells[cell[1]][cell[2]].block # None

(* C12: all board cells start empty, and no poll, gravity tick or move      *)
(* command clears a cell: a cell that is occupied is occupied in the next   *)
(* state.                                                                   *)
C12_OccupancyMonotonic ==
    /\ OccupiedCells(grid) = {}
    /\ [][grid' = grid \/ OccupiedCells(grid) \subseteq OccupiedCells(grid')]_vars

\* a second piece has locked and the cells of the first are still occupied
C12_Witness ==
    /\ Len(locks) >= 2
    /\ locks[1].cells \subseteq OccupiedCells(grid)
    /\ Cardinality(OccupiedCells(grid)) > Cardinality(locks[1].cells)

\* the cell a block of the piece covers once the anchor is one row further down
MovedCell(p, rc) == <<TrueCell(p, rc)[1], TrueCell(p, rc)[2] + 1>>

\* one row further down, a block of the piece is in the last row or directly
\* above an occupied cell
LandsAfterMove(p, g) ==
    \E rc \in ActiveIdx(p) :
        \/ MovedCell(p, rc)[2] = GRID_COLS - 1
        \/ OccupiedAt(g, <<MovedCell(p, rc)[1], MovedCell(p, rc)[2] + 1>>)

\* the anchor of the piece one row further down
Below(p) == GridPosition(p.position.x, p.position.y + 1)

\* this step is a gravity tick of an active piece that the process survives
\* (only GravityTick leaves last.op at "tick" or "spawn")
ActiveTick == last'.op \in {"tick", "spawn"} /\ piece.active /\ ~panicked'

\* this step is a gravity tick that locks the piece
LockTick == ActiveTick /\ Len(locks') = Len(locks) + 1

(* C13 as stated: on a gravity tick with an active piece either the anchor  *)
(* moves down exactly one row and nothing is merged, or the piece is locked *)
(* and merged at its unmoved anchor and a new piece is spawned; never both. *)
C13_FallsOrLocksInPlace ==
    [][ActiveTick =>
          \/ /\ piece'.position = Below(piece)
             /\ grid' = grid
             /\ locks' = locks
          \/ /\ LockTick
             /\ locks'[Len(locks')].anchor = piece.position
             /\ locks'[Len(locks')].cells = {TrueCell(piece, rc) : rc \in ActiveIdx(piece)}
             /\ piece'.position = GridPosition(SPAWN_X, SPAWN_Y)]_vars

(* C13 amended: on a gravity tick with an active piece the anchor first     *)
(* moves down exactly one row.  If a block is then in the last row or       *)
(* directly above an occupied cell, the piece is locked and merged at the   *)
(* moved anchor in that same tick and a new piece is spawned; otherwise the *)
(* piece stays active one row lower and nothing is merged.                  *)
C13_FallsThenMayLock ==
    [][ActiveTick =>
          IF LandsAfterMove(piece, grid)
          THEN /\ LockTick
               /\ locks'[Len(locks')].anchor = Below(piece)
               /\ locks'[Len(locks')].cells =
                     {<<ClampX(MovedCell(piece, rc)[1]), MovedCell(piece, rc)[2]>> :
                         rc \in ActiveIdx(piece)}
               /\ locks'[Len(locks')].cells \subseteq OccupiedCells(grid')
               /\ piece'.position = GridPosition(SPAWN_X, SPAWN_Y)
               /\ piece'.active
          ELSE /\ piece'.position = Below(piece)
               /\ piece'.active
               /\ piece'.kind = piece.kind
               /\ grid' = grid
               /\ locks' = locks]_vars

\* a piece that was moved sideways has locked on a tick that also moved it:
\* every one of its gravity ticks, the last included, took it one row down
C13_Witness ==
    /\ Len(locks) >= 1
    /\ moves >= 1
    /\ locks[1].anchor.y = locks[1].ticks
    /\ locks[1].anchor.y > SPAWN_Y
    /\ last.op = "spawn"

(* C14 as stated: when a piece locks, for each of its active, rendered      *)
(* blocks the board cell at the block's absolute position becomes occupied  *)
(* and stores a frozen copy (not active, rendered) of a block of the        *)
(* piece's kind at that position; no other cell of the board changes.       *)
C14_LockWritesBlockCells ==
    [][LockTick =>
          /\ \A rc \in ActiveIdx(piece) :
                /\ InBoard(MovedCell(piece, rc))
                /\ grid'.cells[MovedCell(piece, rc)[1]][MovedCell(piece, rc)[2]]
                      = [occupied |-> TRUE,
                         block |-> Some(Frozen(piece.kind, MovedCell(piece, rc)))]
          /\ \A cell \in (Cols \X Rows) \ {MovedCell(piece, rc) : rc \in ActiveIdx(piece)} :
                grid'.cells[cell[1]][cell[2]] = grid.cells[cell[1]][cell[2]]]_vars

\* the last thing that happened is a poll that the process survived
AfterPoll ==
    /\ ~panicked
    /\ \/ last.op \in {"tick", "refresh"}
       \/ last.op = "spawn" /\ locks # <<>>

(* C15 as stated: at the end of every poll, a poll on which the gravity     *)
(* tick fires and one on which the piece is replaced included, each active  *)
(* block of the current piece has its absolute position equal to the        *)
(* current anchor plus its offset.                                          *)
C15_RefreshedAfterEveryPoll == AfterPoll => PositionsCurrent(piece)

\* the last thing that happened is a poll that performed a gravity tick
AfterTick ==
    /\ ~panicked
    /\ \/ last.op = "tick"
       \/ last.op = "spawn" /\ locks # <<>>

(* C16: a poll performs the gravity tick exactly when the time since the    *)
(* previous gravity tick (since the start, for the first) that the poll     *)
(* measures is at least MILLIS_PER_UPDATE; a poll that ticks restarts that  *)
(* time at 0 and a poll that does not tick only refreshes, so two gravity   *)
(* ticks are never less than one interval apart, and a piece is one row     *)
(* down for each ticking poll it has seen (one gravity tick per poll).      *)
C16_TickIffIntervalElapsed ==
    /\ AfterTick => (waited >= MILLIS_PER_UPDATE /\ elapsed = 0)
    /\ (~panicked /\ last.op = "refresh") => (waited < MILLIS_PER_UPDATE /\ elapsed = waited)
    /\ piece.position.y = SPAWN_Y + ticks

\* a poll came too early and only refreshed, and the next poll, a whole
\* interval later, performed the second gravity tick of the piece
C16_Witness ==
    /\ last = [op |-> "tick", res |-> "fell"]
    /\ ticks = 2
    /\ waited = DtStep + MILLIS_PER_UPDATE
    /\ elapsed = 0

\* this step is a move command for the direction
KeyStep(direction) == moves' = moves + 1 /\ last'.op = direction

(* C17: a MoveLeft/MoveRight command changes nothing but the anchor column  *)
(* of the current piece: by exactly -1/+1 when can_move returns true, not   *)
(* at all when it returns false; the board, the anchor row, the kind, the   *)
(* active flag and the blocks of the piece and the time since the last      *)
(* gravity tick are unchanged.                                              *)
C17_MoveChangesOnlyAnchorColumn ==
    [][\A direction \in Direction : KeyStep(direction) =>
          \A res \in {can_move(piece, grid, direction)} :
              /\ grid' = grid
              /\ elapsed' = elapsed
              /\ last'.res = res
              /\ res = "true" =>
                    piece' = [piece EXCEPT !.position.x =
                                 IF direction = LEFT THEN @ - 1 ELSE @ + 1]
              /\ res # "true" => piece' = piece]_vars

\* a MoveLeft was applied and a later MoveLeft, at the same anchor row, too
C17_Witness ==
    /\ last = [op |-> LEFT, res |-> "true"]
    /\ piece.position = GridPosition(SPAWN_X - 2, SPAWN_Y + 1)
    /\ moves = 2
    /\ grid = Grid_new

(* C18 as stated: under any interleaving of spawns, gravity ticks and       *)
(* lateral moves no active block of the falling piece is at a position      *)
(* whose cell is occupied, and no lock writes into a cell that was already  *)
(* occupied: each lock adds exactly 4 newly occupied cells.                 *)
C18_NoOverlap ==
    /\ \A rc \in ActiveIdx(piece) :
          /\ ~OccupiedAt(grid, TrueCell(piece, rc))
          /\ ~OccupiedAt(grid, StoredCell(piece, rc))
    /\ \A i \in DOMAIN locks :
          /\ Cardinality(locks[i].cells) = 4
          /\ \A j \in 1 .. (i - 1) : locks[i].cells \cap locks[j].cells = {}
    /\ Cardinality(OccupiedCells(grid)) = 4 * Len(locks)

(* C19: the visual refresh never deactivates the piece, so the current      *)
(* piece is active in every state and stays active under update_fast, and   *)
(* every piece that was replaced was active when its last gravity tick      *)
(* began and had its blocks written to the board by that tick.              *)
C19_NoPieceDiscardedUnmerged ==
    /\ piece.active
    /\ update_fast(piece).active
    /\ \A i \in DOMAIN locks :
          /\ locks[i].merged
          /\ locks[i].cells # {}
          /\ locks[i].cells \subseteq OccupiedCells(grid)

\* a replacement piece has come down to the row above the last one, where a
\* refresh has left it active
C19_Witness ==
    /\ last.op = "refresh"
    /\ Len(locks) >= 1
    /\ piece.active
    /\ \E rc \in ActiveIdx(piece) : StoredCell(piece, rc)[2] = GRID_COLS - 2

\* the rows of the piece stay on the board and it sees at most 19 gravity ticks
C20_Within19Ticks ==
    /\ ticks <= GRID_COLS - 2
    /\ \A i \in DOMAIN locks : locks[i].ticks <= GRID_COLS - 1
    /\ \A rc \in ActiveIdx(piece) :
          /\ StoredCell(piece, rc)[2] <= GRID_COLS - 1
          /\ TrueCell(piece, rc)[2] <= GRID_COLS - 1

(* C20 as stated: every spawned piece eventually locks, whatever lateral    *)
(* moves are interleaved: it locks within at most 19 gravity ticks of its   *)
(* spawn, and no active block ever reaches a row greater than 19.  The      *)
(* piece followed to its lock is the first of the game, which the runs      *)
(* leave every gravity tick it needs.                                       *)
C20_EveryPieceLocks ==
    /\ []C20_Within19Ticks
    /\ (locks = <<>>) ~> (locks # <<>>)

====
